---- MODULE Spec2Model ----
(***************************************************************************)
(* A model of cudf::groupby::groupby (the grouping context and its         *)
(* dispatcher): construction, aggregate, scan, get_groups and the lazily   *)
(* built sort_groupby_helper.                                              *)
(*                                                                         *)
(* A key table is [types, rows]; a row is a tuple of cells, one per key    *)
(* column; a cell is 0 (null) or a value from 1 up.  A value column is     *)
(* the metadata the dispatcher reads: [type, size, keys_type]; keys_type   *)
(* is the element type of a dictionary column's keys child and "EMPTY" for *)
(* every other column.                                                     *)
(***************************************************************************)
EXTENDS Integers, Sequences, FiniteSets, TLC

VARIABLES
  _keys,               \* groupby::_keys
  _include_null_keys,  \* groupby::_include_null_keys
  _keys_are_sorted,    \* groupby::_keys_are_sorted
  _column_order,       \* groupby::_column_order
  _null_precedence,    \* groupby::_null_precedence
  _helper,             \* groupby::_helper, a unique_ptr: <<>> or <<helper>>
  helper_builds,       \* how many times make_unique<sort_groupby_helper> ran
  first_groups,        \* what the first get_groups call returned: <<>> or <<groups>>
  sort_class_served,   \* a scan or a MEDIAN/QUANTILE-class aggregate has been served
  failed_in_NoHelper,  \* the call before failed validation and found no helper
  cuda_10_2,           \* the build: __CUDACC_VER_MAJOR__ == 10 and __CUDACC_VER_MINOR__ == 2
  ret,                 \* the call in flight: what it was given and what it returned
  threads              \* the calls of concurrent callers: where each stands, what it saw

vars == <<_keys, _include_null_keys, _keys_are_sorted, _column_order, _null_precedence,
          _helper, helper_builds, first_groups, sort_class_served, failed_in_NoHelper,
          cuda_10_2, ret, threads>>

----------------------------------------------------------------------------
(* Bounds of the model *)

\* rows of a key table of one column, and of a value column; a key table of
\* two columns has fewer
MaxRows == 3
\* the non-null cells of a key table of one column are 1..MaxKey; those of a
\* key table of two columns are all 1
MaxKey == 2
\* requests in one call
MaxRequests == 2
\* aggregation descriptors in one call, over all of its requests
MaxAggs == 2

----------------------------------------------------------------------------
(* Types and aggregation kinds *)

Kinds == {"SUM", "MIN", "MAX", "COUNT", "MEAN", "MEDIAN", "QUANTILE"}

\* The kinds a request is given in the model.  Every rule below treats MAX
\* as it treats MIN, and QUANTILE as it treats MEDIAN.
RequestKinds == Kinds \ {"MAX", "QUANTILE"}

\* the element types a value column is given in the model
ValueTypes == {"INT32", "STRING", "DICTIONARY32"}

\* the element types of a dictionary column's keys child
DictKeyTypes == {"INT32", "STRING"}

is_dictionary(type) == type = "DICTIONARY32"

\* the key columns of a row
KeyColumns(row) == DOMAIN row

IsNull(cell) == cell = 0

----------------------------------------------------------------------------
(* Bounded sequences *)

SeqUpTo(S, n) == UNION {[1..m -> S] : m \in 0..n}

\* the key tables of the given column types, of at most n rows, with cells
\* up to k
KeyTablesOf(types, n, k) ==
  [types : {types}, rows : SeqUpTo([DOMAIN types -> 0..k], n)]

KeyTables ==
  KeyTablesOf(<<"INT32">>, MaxRows, MaxKey)
    \cup KeyTablesOf(<<"INT32", "STRING">>, MaxRows - 1, 1)

\* the value columns of the given row counts
ValueColumns(sizes) ==
  {c \in [type : ValueTypes, size : sizes, keys_type : DictKeyTypes \cup {"EMPTY"}] :
     is_dictionary(c.type) <=> c.keys_type # "EMPTY"}

\* the descriptors that the requests of a call hold in all
RECURSIVE Descriptors(_)
Descriptors(requests) ==
  IF requests = <<>> THEN 0
  ELSE Len(Head(requests).aggregations) + Descriptors(Tail(requests))

\* the calls of at most n requests, on the given columns, holding at most a
\* descriptors in all
CallsUpTo(n, a, columns) ==
  {requests \in UNION {[1..m -> [values : columns, aggregations : SeqUpTo(RequestKinds, a)]] :
                         m \in 0..n} :
     Descriptors(requests) <= a}

----------------------------------------------------------------------------
(* Type rules (cudf::detail::target_type, cudf::detail::is_valid_aggregation) *)

is_numeric(type) == type \in {"INT32", "INT64", "FLOAT64"}

\* The element type of the result of aggregation kind over elements of type;
\* "EMPTY" (no type) where the combination has no result.
target_type(type, kind) ==
  CASE kind = "COUNT" -> "INT32"
    [] kind \in {"MIN", "MAX"} -> type
    [] kind = "SUM" -> IF type \in {"INT32", "INT64"} THEN "INT64"
                       ELSE IF type = "FLOAT64" THEN "FLOAT64" ELSE "EMPTY"
    [] kind \in {"MEAN", "MEDIAN", "QUANTILE"} ->
                       IF is_numeric(type) THEN "FLOAT64" ELSE "EMPTY"

is_valid_aggregation(type, kind) == target_type(type, kind) # "EMPTY"

\* the kinds the hash strategy computes
is_hash_aggregation(kind) == kind \in {"SUM", "MIN", "MAX", "COUNT", "MEAN"}

can_use_hash_groupby(keys, requests) ==
  \A i \in 1..Len(requests) :
    \A j \in 1..Len(requests[i].aggregations) :
      is_hash_aggregation(requests[i].aggregations[j])

make_empty_column(type) == [type |-> type, size |-> 0]

num_rows(table) == Len(table.rows)

empty_like(table) == [types |-> table.types, rows |-> <<>>]

----------------------------------------------------------------------------
(* detail::sort::sort_groupby_helper: the sort order of the key rows, the  *)
(* group boundaries and the unique keys.  The helper is built from the key *)
(* table, the null-key policy and the sortedness hint, and from nothing    *)
(* else.                                                                   *)

sort_groupby_helper(keys, include_null_keys, keys_are_sorted) ==
  [keys |-> keys, include_null_keys |-> include_null_keys,
   keys_are_sorted |-> keys_are_sorted]

RowHasNull(row) == \E c \in KeyColumns(row) : IsNull(row[c])

\* ascending, nulls after every value
CellLess(x, y) == ~IsNull(x) /\ (IsNull(y) \/ x < y)

RowLess(a, b) ==
  \E c \in KeyColumns(a) :
    CellLess(a[c], b[c]) /\ \A d \in KeyColumns(a) : d < c => a[d] = b[d]

\* the rows that take part in grouping, by index
KeptRows(h) ==
  {i \in 1..num_rows(h.keys) :
     h.include_null_keys = "INCLUDE" \/ ~RowHasNull(h.keys.rows[i])}

\* the indices of S in ascending order
RECURSIVE Ascending(_)
Ascending(S) ==
  IF S = {} THEN <<>>
  ELSE LET least == CHOOSE i \in S : \A j \in S : i <= j
       IN  <<least>> \o Ascending(S \ {least})

\* row i comes no later than row j in a stable sort by key
KeyBefore(rows, i, j) == RowLess(rows[i], rows[j]) \/ (rows[i] = rows[j] /\ i <= j)

\* the indices of S stably sorted by key
RECURSIVE SortedByKey(_, _)
SortedByKey(rows, S) ==
  IF S = {} THEN <<>>
  ELSE LET first == CHOOSE i \in S : \A j \in S : KeyBefore(rows, i, j)
       IN  <<first>> \o SortedByKey(rows, S \ {first})

\* Row indices in grouping order: the kept rows as they stand when the keys
\* are declared sorted, else stably sorted by key.
key_sort_order(h) ==
  IF h.keys_are_sorted = "YES" THEN Ascending(KeptRows(h))
  ELSE SortedByKey(h.keys.rows, KeptRows(h))

\* the number of key rows after null filtering
num_keys(h) == Cardinality(KeptRows(h))

\* the positions of an order of the rows at which a group starts
GroupStarts(rows, order) ==
  Ascending({p \in 1..Len(order) : p = 1 \/ rows[order[p]] # rows[order[p - 1]]})

\* the offsets (from 0) of the starts, then the number of keys
OffsetsOf(starts, keys) == [g \in 1..Len(starts) |-> starts[g] - 1] \o <<keys>>

\* Offsets (from 0) into key_sort_order at which a group starts, then the
\* number of keys.
group_offsets(h) == OffsetsOf(GroupStarts(h.keys.rows, key_sort_order(h)), num_keys(h))

num_groups(h) == Len(group_offsets(h)) - 1

\* the rows of a key table at the given offsets (from 0) into an order
RowsAt(rows, order, offsets) ==
  [g \in 1..Len(offsets) - 1 |-> rows[order[offsets[g] + 1]]]

\* the first row of each group, in group order
sorted_keys(h) ==
  [types |-> h.keys.types,
   rows |-> RowsAt(h.keys.rows, key_sort_order(h), group_offsets(h))]

----------------------------------------------------------------------------
(* The strategies: what each returns for the requests, as far as the       *)
(* dispatcher's contract goes (the keys, and each result column's type and *)
(* row count).                                                             *)

\* a slip: the type of the column itself, a dictionary's too
values_type_OfColumn(request) == request.values.type

\* What a value column holds in row i.  The rows hold distinct powers of
\* two, so that a sum tells which rows went into it.
ValueAt(i) == 2 ^ (i - 1)

RECURSIVE SumOf(_)
SumOf(S) == IF S = {} THEN 0 ELSE LET x == CHOOSE y \in S : TRUE IN x + SumOf(S \ {x})

\* the element of S with k elements of S below it
Ranked(S, k) == CHOOSE x \in S : Cardinality({y \in S : y < x}) = k

\* The reduction of a kind over the values of a non-empty set of rows.  A
\* MEAN is kept as <<sum, count>>, a MEDIAN or QUANTILE as the two middle
\* values it interpolates between.
reduce(kind, rows) ==
  LET S == {ValueAt(i) : i \in rows}
      n == Cardinality(S)
  IN  CASE kind = "SUM" -> SumOf(S)
        [] kind = "MIN" -> Ranked(S, 0)
        [] kind = "MAX" -> Ranked(S, n - 1)
        [] kind = "COUNT" -> n
        [] kind = "MEAN" -> <<SumOf(S), n>>
        [] kind \in {"MEDIAN", "QUANTILE"} -> <<Ranked(S, (n - 1) \div 2), Ranked(S, n \div 2)>>

\* for each descriptor of each request, its reduction over each of the
\* given sets of rows in turn
reductions(requests, row_sets) ==
  [i \in 1..Len(requests) |->
    [j \in 1..Len(requests[i].aggregations) |->
      [g \in 1..Len(row_sets) |-> reduce(requests[i].aggregations[j], row_sets[g])]]]

\* the element type an aggregation is computed over
values_type(request) ==
  IF is_dictionary(request.values.type) THEN request.values.keys_type
  ELSE request.values.type

\* one column of rows rows for each descriptor of each request
result_columns(requests, rows) ==
  [i \in 1..Len(requests) |->
    [j \in 1..Len(requests[i].aggregations) |->
      [type |-> target_type(values_type(requests[i]), requests[i].aggregations[j]),
       size |-> rows]]]

\* the rows of each group: the slices of the sort order between the offsets
group_rows(order, offsets) ==
  [g \in 1..Len(offsets) - 1 |-> {order[p] : p \in (offsets[g] + 1)..offsets[g + 1]}]

\* for each position of the sort order, the slice from where its group
\* starts up to it
prefix_rows(order, offsets) ==
  LET start(p) == CHOOSE g \in 1..Len(offsets) - 1 : offsets[g] < p /\ p <= offsets[g + 1]
  IN  [p \in 1..Len(order) |-> {order[q] : q \in (offsets[start(p)] + 1)..p}]

\* a sequence of the sort order put back in the original order of the rows
unpermute(order, sorted) ==
  LET kept == Ascending({order[p] : p \in 1..Len(order)})
  IN  [k \in 1..Len(kept) |-> sorted[CHOOSE p \in 1..Len(order) : order[p] = kept[k]]]

\* detail::hash::groupby: the unique keys in the order first met
hash_groupby(keys, requests, include_null_keys) ==
  LET h == sort_groupby_helper(keys, include_null_keys, "NO")
      firsts == {i \in KeptRows(h) : \A j \in KeptRows(h) : j < i => keys.rows[j] # keys.rows[i]}
      order == Ascending(firsts)
  IN  [keys |-> [types |-> keys.types, rows |-> [g \in 1..Len(order) |-> keys.rows[order[g]]]],
       results |-> result_columns(requests, Len(order)),
       aggregates |->
         reductions(requests,
                    [g \in 1..Len(order) |->
                      {i \in KeptRows(h) : keys.rows[i] = keys.rows[order[g]]}])]

----------------------------------------------------------------------------
(* The grouping context *)

\* the state of the context: what the constructor stores, and the helper slot
context == <<_keys, _include_null_keys, _keys_are_sorted, _column_order, _null_precedence,
             _helper>>

\* a slip: the helper is built to keep the rows with null keys, whatever the
\* policy of the context
helper_KeepsNullKeys(slot) ==
  IF slot # <<>> THEN [slot |-> slot, built |-> 0]
  ELSE [slot |-> <<sort_groupby_helper(_keys, "INCLUDE", _keys_are_sorted)>>, built |-> 1]

\* a slip: the slot is not tested, a helper is constructed at every call
helper_AlwaysMakes(slot) ==
  [slot |-> <<sort_groupby_helper(_keys, _include_null_keys, _keys_are_sorted)>>, built |-> 1]

\* a slip: the helper is built to sort, whatever the hint of the context
helper_SortsDeclaredSorted(slot) ==
  IF slot # <<>> THEN [slot |-> slot, built |-> 0]
  ELSE [slot |-> <<sort_groupby_helper(_keys, _include_null_keys, "NO")>>, built |-> 1]

\* groupby::helper(): the slot it leaves and how many helpers it constructed
helper(slot) ==
  IF slot # <<>> THEN [slot |-> slot, built |-> 0]
  ELSE [slot |-> <<sort_groupby_helper(_keys, _include_null_keys, _keys_are_sorted)>>,
        built |-> 1]

\* What the sort strategy returns from a helper's sort order and group
\* offsets: the sorted keys and, for each descriptor, one value per group
\* or, for a scan, one running value per kept row in the rows' own order.
sort_groupby(requests, h, order, offsets, per_row) ==
  [status |-> "ok", strategy |-> "sort", helper |-> h.slot, built |-> h.built,
   keys |-> [types |-> h.slot[1].keys.types,
             rows |-> RowsAt(h.slot[1].keys.rows, order, offsets)],
   results |-> result_columns(requests, IF per_row THEN Len(order) ELSE Len(offsets) - 1),
   aggregates |->
     reductions(requests,
                IF per_row THEN unpermute(order, prefix_rows(order, offsets))
                ELSE group_rows(order, offsets))]

\* groupby::sort_aggregate: one value per group, from the context's helper
sort_aggregate(requests) ==
  sort_groupby(requests, helper(_helper), key_sort_order(helper(_helper).slot[1]),
               group_offsets(helper(_helper).slot[1]), FALSE)

\* groupby::sort_scan: one value per kept row, from the context's helper
sort_scan(requests) ==
  sort_groupby(requests, helper(_helper), key_sort_order(helper(_helper).slot[1]),
               group_offsets(helper(_helper).slot[1]), TRUE)

\* a slip: the first request alone is compared with the keys
SizesMatch_FirstOnly(requests) ==
  requests # <<>> => requests[1].values.size = num_rows(_keys)

\* the size check of aggregate and of scan
SizesMatch(requests) ==
  \A i \in 1..Len(requests) : requests[i].values.size = num_rows(_keys)

\* the first check of verify_valid_requests
ValidCombinations(requests) ==
  \A i \in 1..Len(requests) :
    \A j \in 1..Len(requests[i].aggregations) :
      is_valid_aggregation(values_type(requests[i]), requests[i].aggregations[j])

\* the second check, compiled in by nvcc 10.2 alone
DictionarySupported(requests) ==
  \A i \in 1..Len(requests) :
    \A j \in 1..Len(requests[i].aggregations) :
      \/ ~is_dictionary(requests[i].values.type)
      \/ requests[i].aggregations[j] \notin {"SUM", "MEAN", "STD", "VARIANCE"}

\* what verify_valid_requests throws, or "ok"
verify_valid_requests(requests) ==
  IF ~ValidCombinations(requests) THEN "InvalidAggregation"
  ELSE IF cuda_10_2 /\ ~DictionarySupported(requests) THEN "DictionaryNotSupported"
  ELSE "ok"

\* a slip: each empty column takes the type of the value column
empty_results_ValueTyped(requests) ==
  [i \in 1..Len(requests) |->
    [j \in 1..Len(requests[i].aggregations) |-> make_empty_column(requests[i].values.type)]]

empty_results(requests) ==
  [i \in 1..Len(requests) |->
    [j \in 1..Len(requests[i].aggregations) |->
      make_empty_column(target_type(requests[i].values.type, requests[i].aggregations[j]))]]

NoTable == [types |-> <<>>, rows |-> <<>>]

\* a slip: the helper is fetched before the checks run, so a call that
\* throws has built it
Throw_AfterHelper(error) ==
  [status |-> error, strategy |-> "none", helper |-> helper(_helper).slot,
   built |-> helper(_helper).built, keys |-> NoTable, results |-> <<>>,
   aggregates |-> <<>>]

\* a call that throws: nothing is returned and the helper slot is as it was
Throw(error) ==
  [status |-> error, strategy |-> "none", helper |-> _helper, built |-> 0,
   keys |-> NoTable, results |-> <<>>, aggregates |-> <<>>]

\* a slip: the helper slot is not looked at
UseHash_IgnoresHelper(requests) ==
  /\ _keys_are_sorted = "NO"
  /\ can_use_hash_groupby(_keys, requests)

\* a slip: the sortedness hint is not looked at
UseHash_IgnoresHint(requests) ==
  /\ _helper = <<>>
  /\ can_use_hash_groupby(_keys, requests)

\* the condition under which dispatch_aggregation takes the hash strategy
UseHash(requests) ==
  /\ _keys_are_sorted = "NO"
  /\ _helper = <<>>
  /\ can_use_hash_groupby(_keys, requests)

\* a slip: the hash strategy is told to keep the rows with null keys,
\* whatever the policy of the context
dispatch_aggregation_HashKeepsNulls(requests) ==
  IF UseHash(requests)
  THEN LET out == hash_groupby(_keys, requests, "INCLUDE")
       IN  [status |-> "ok", strategy |-> "hash", helper |-> _helper, built |-> 0,
            keys |-> out.keys, results |-> out.results, aggregates |-> out.aggregates]
  ELSE sort_aggregate(requests)

\* a slip: the helper is asked for before the strategy is chosen
dispatch_aggregation_HelperFirst(requests) ==
  IF UseHash(requests)
  THEN LET out == hash_groupby(_keys, requests, _include_null_keys)
       IN  [status |-> "ok", strategy |-> "hash", helper |-> helper(_helper).slot,
            built |-> helper(_helper).built,
            keys |-> out.keys, results |-> out.results, aggregates |-> out.aggregates]
  ELSE sort_aggregate(requests)

dispatch_aggregation(requests) ==
  IF UseHash(requests)
  THEN LET out == hash_groupby(_keys, requests, _include_null_keys)
       IN  [status |-> "ok", strategy |-> "hash", helper |-> _helper, built |-> 0,
            keys |-> out.keys, results |-> out.results, aggregates |-> out.aggregates]
  ELSE sort_aggregate(requests)

\* a slip: the empty-input shortcut is taken before the checks run
aggregate_EmptyFirst(requests) ==
  IF num_rows(_keys) = 0
  THEN [status |-> "ok", strategy |-> "empty", helper |-> _helper, built |-> 0,
        keys |-> empty_like(_keys), results |-> empty_results(requests),
        aggregates |-> reductions(requests, <<>>)]
  ELSE IF ~SizesMatch(requests) THEN Throw("SizeMismatch")
  ELSE IF verify_valid_requests(requests) # "ok" THEN Throw(verify_valid_requests(requests))
  ELSE dispatch_aggregation(requests)

aggregate(requests) ==
  IF ~SizesMatch(requests) THEN Throw("SizeMismatch")
  ELSE IF verify_valid_requests(requests) # "ok" THEN Throw(verify_valid_requests(requests))
  ELSE IF num_rows(_keys) = 0
  THEN [status |-> "ok", strategy |-> "empty", helper |-> _helper, built |-> 0,
        keys |-> empty_like(_keys), results |-> empty_results(requests),
        aggregates |-> reductions(requests, <<>>)]
  ELSE dispatch_aggregation(requests)

\* a slip: scan goes through dispatch_aggregation as aggregate does
scan_ViaDispatch(requests) ==
  IF ~SizesMatch(requests) THEN Throw("SizeMismatch")
  ELSE IF verify_valid_requests(requests) # "ok" THEN Throw(verify_valid_requests(requests))
  ELSE IF num_rows(_keys) = 0
  THEN [status |-> "ok", strategy |-> "empty", helper |-> _helper, built |-> 0,
        keys |-> empty_like(_keys), results |-> empty_results(requests),
        aggregates |-> reductions(requests, <<>>)]
  ELSE dispatch_aggregation(requests)

scan(requests) ==
  IF ~SizesMatch(requests) THEN Throw("SizeMismatch")
  ELSE IF verify_valid_requests(requests) # "ok" THEN Throw(verify_valid_requests(requests))
  ELSE IF num_rows(_keys) = 0
  THEN [status |-> "ok", strategy |-> "empty", helper |-> _helper, built |-> 0,
        keys |-> empty_like(_keys), results |-> empty_results(requests),
        aggregates |-> reductions(requests, <<>>)]
  ELSE sort_scan(requests)

\* cudf::detail::gather of the one-column table <<1, ..., num_rows>> by the
\* key sort order; no column when values has none
gather(with_values, order) == IF with_values THEN <<order>> ELSE <<>>

\* a slip: the copy stops one element short
group_offsets_vector_OneShort(offsets) == [k \in 1..Len(offsets) - 1 |-> offsets[k]]

\* the copy of the device offsets into a host vector
group_offsets_vector(offsets) == [k \in 1..Len(offsets) |-> offsets[k]]

\* a slip: the offsets are read from the helper slot as the call found it,
\* and are none when the helper was not built yet
get_groups_StaleOffsets(with_values) ==
  LET h1 == helper(_helper)
      h3 == IF with_values THEN helper(h1.slot) ELSE [slot |-> h1.slot, built |-> 0]
      offsets == IF _helper = <<>> THEN <<>> ELSE group_offsets(_helper[1])
  IN  [helper |-> h3.slot, built |-> h1.built + h3.built,
       keys |-> sorted_keys(h1.slot[1]),
       group_offsets |-> group_offsets_vector(offsets),
       grouped_values |-> gather(with_values, key_sort_order(h3.slot[1]))]

\* a slip: get_groups works on a helper of its own and leaves the slot alone
get_groups_OwnHelper(with_values) ==
  LET own == sort_groupby_helper(_keys, _include_null_keys, _keys_are_sorted)
  IN  [helper |-> _helper, built |-> 0,
       keys |-> sorted_keys(own),
       group_offsets |-> group_offsets_vector(group_offsets(own)),
       grouped_values |-> gather(with_values, key_sort_order(own))]

\* get_groups calls helper() for the keys, again for the offsets and, given
\* values, a third time for the sort order
get_groups(with_values) ==
  LET h1 == helper(_helper)
      h2 == helper(h1.slot)
      h3 == IF with_values THEN helper(h2.slot) ELSE [slot |-> h2.slot, built |-> 0]
  IN  [helper |-> h3.slot, built |-> h1.built + h2.built + h3.built,
       keys |-> sorted_keys(h1.slot[1]),
       group_offsets |-> group_offsets_vector(group_offsets(h2.slot[1])),
       grouped_values |-> gather(with_values, key_sort_order(h3.slot[1]))]

----------------------------------------------------------------------------
(* Construction *)

\* the directive for key column c; an empty vector leaves every column at
\* the default
Directive(directives, c, default) == IF directives = <<>> THEN default ELSE directives[c]

\* x sorts before y in a column of the given order and null precedence
CellLessBy(x, y, order, nulls) ==
  LET lt(a, b) == \/ ~IsNull(a) /\ ~IsNull(b) /\ a < b
                  \/ IsNull(a) /\ ~IsNull(b) /\ nulls = "BEFORE"
                  \/ ~IsNull(a) /\ IsNull(b) /\ nulls = "AFTER"
  IN  IF order = "ASCENDING" THEN lt(x, y) ELSE lt(y, x)

RowLessBy(a, b, column_order, null_precedence) ==
  \E c \in KeyColumns(a) :
    /\ CellLessBy(a[c], b[c], Directive(column_order, c, "ASCENDING"),
                  Directive(null_precedence, c, "AFTER"))
    /\ \A d \in KeyColumns(a) : d < c => a[d] = b[d]

\* what a caller declares with sorted::YES: the rows are in the order that
\* column_order and null_precedence describe
KeysSortedAs(keys, column_order, null_precedence) ==
  \A i, j \in 1..num_rows(keys) :
    i < j => ~RowLessBy(keys.rows[j], keys.rows[i], column_order, null_precedence)

\* a slip: keys declared sorted get their helper in the constructor
Construct_EagerHelper(keys, include_null_keys, keys_are_sorted, column_order, null_precedence) ==
  /\ _keys = keys
  /\ _include_null_keys = include_null_keys
  /\ _keys_are_sorted = keys_are_sorted
  /\ _column_order = column_order
  /\ _null_precedence = null_precedence
  /\ _helper = IF keys_are_sorted = "YES"
               THEN <<sort_groupby_helper(keys, include_null_keys, keys_are_sorted)>>
               ELSE <<>>

\* groupby::groupby
Construct(keys, include_null_keys, keys_are_sorted, column_order, null_precedence) ==
  /\ _keys = keys
  /\ _include_null_keys = include_null_keys
  /\ _keys_are_sorted = keys_are_sorted
  /\ _column_order = column_order
  /\ _null_precedence = null_precedence
  /\ _helper = <<>>

\* no call in flight
NoCall ==
  [op |-> "none", status |-> "none", strategy |-> "none", requests |-> <<>>,
   keys |-> NoTable, results |-> <<>>, aggregates |-> <<>>,
   group_offsets |-> <<>>, grouped_values |-> <<>>,
   had_helper |-> FALSE, after_sort_class |-> FALSE, after_failure |-> FALSE,
   repeated |-> FALSE]

\* the callers that may use one context at the same time
Threads == {1, 2}

\* a caller with no call in flight
Idle ==
  [pc |-> "idle", op |-> "none", requests |-> <<>>, status |-> "none", strategy |-> "none",
   saw_empty |-> FALSE, made |-> FALSE, ref |-> 0, helper_at_hash |-> FALSE]

\* The directives a caller gives for n key columns: none, or the first
\* column descending with its nulls first and the others ascending with
\* their nulls last.
DirectivesFor(n) ==
  {[column_order |-> <<>>, null_precedence |-> <<>>],
   [column_order |-> [c \in 1..n |-> IF c = 1 THEN "DESCENDING" ELSE "ASCENDING"],
    null_precedence |-> [c \in 1..n |-> IF c = 1 THEN "BEFORE" ELSE "AFTER"]]}

\* The contexts over a pool of key tables, with directives or without, in
\* the given builds.  Keys declared sorted are sorted.
InitOver(tables, with_directives, builds) ==
  /\ \E keys \in tables, include_null_keys \in {"EXCLUDE", "INCLUDE"},
        keys_are_sorted \in {"NO", "YES"} :
       \E d \in IF with_directives THEN DirectivesFor(Len(keys.types))
                 ELSE {[column_order |-> <<>>, null_precedence |-> <<>>]} :
         /\ keys_are_sorted = "YES" => KeysSortedAs(keys, d.column_order, d.null_precedence)
         /\ Construct(keys, include_null_keys, keys_are_sorted,
                      d.column_order, d.null_precedence)
  /\ cuda_10_2 \in builds
  /\ helper_builds = 0
  /\ first_groups = <<>>
  /\ sort_class_served = FALSE
  /\ failed_in_NoHelper = FALSE
  /\ ret = NoCall
  /\ threads = [t \in Threads |-> Idle]

----------------------------------------------------------------------------
(* The calls *)

ContainsSortOnlyKind(requests) ==
  \E i \in 1..Len(requests) :
    \E j \in 1..Len(requests[i].aggregations) :
      requests[i].aggregations[j] \in {"MEDIAN", "QUANTILE"}

\* the effect of an aggregate or a scan call with outcome r
Served(op, requests, r) ==
  /\ _helper' = r.helper
  /\ helper_builds' = helper_builds + r.built
  /\ sort_class_served' =
       (sort_class_served \/ (r.status = "ok" /\ (op = "scan" \/ ContainsSortOnlyKind(requests))))
  /\ failed_in_NoHelper' = (r.status # "ok" /\ _helper = <<>>)
  /\ ret' = [op |-> op, status |-> r.status, strategy |-> r.strategy, requests |-> requests,
             keys |-> r.keys, results |-> r.results, aggregates |-> r.aggregates,
             group_offsets |-> <<>>, grouped_values |-> <<>>,
             had_helper |-> (_helper # <<>>), after_sort_class |-> sort_class_served,
             after_failure |-> failed_in_NoHelper, repeated |-> FALSE]
  /\ UNCHANGED <<_keys, _include_null_keys, _keys_are_sorted, _column_order,
                 _null_precedence, first_groups, cuda_10_2, threads>>

Aggregate(calls) ==
  /\ ret.op = "none"
  /\ \E requests \in calls :
       \E r \in {aggregate(requests)} : Served("aggregate", requests, r)

Scan(calls) ==
  /\ ret.op = "none"
  /\ \E requests \in calls :
       \E r \in {scan(requests)} : Served("scan", requests, r)

GetGroups ==
  /\ ret.op = "none"
  /\ \E with_values \in BOOLEAN :
       \E g \in {get_groups(with_values)} :
           /\ _helper' = g.helper
           /\ helper_builds' = helper_builds + g.built
           /\ first_groups' = IF first_groups = <<>>
                              THEN <<[keys |-> g.keys, group_offsets |-> g.group_offsets,
                                      served_before |-> sort_class_served]>>
                              ELSE first_groups
           /\ failed_in_NoHelper' = FALSE
           /\ ret' = [op |-> "get_groups", status |-> "ok", strategy |-> "none",
                      requests |-> <<>>, keys |-> g.keys, results |-> <<>>,
                      aggregates |-> <<>>,
                      group_offsets |-> g.group_offsets,
                      grouped_values |-> g.grouped_values,
                      had_helper |-> (_helper # <<>>),
                      after_sort_class |-> sort_class_served,
                      after_failure |-> failed_in_NoHelper,
                      repeated |-> (first_groups # <<>>)]
  /\ UNCHANGED <<_keys, _include_null_keys, _keys_are_sorted, _column_order,
                 _null_precedence, sort_class_served, cuda_10_2, threads>>

\* the caller takes what the call returned, or catches what it threw
Return ==
  /\ ret.op # "none"
  /\ ret' = NoCall
  /\ UNCHANGED <<_keys, _include_null_keys, _keys_are_sorted, _column_order,
                 _null_precedence, _helper, helper_builds, first_groups,
                 sort_class_served, failed_in_NoHelper, cuda_10_2, threads>>

----------------------------------------------------------------------------
(* The dispatcher: every call of at most MaxRequests requests and MaxAggs  *)
(* descriptors, on a key table that is empty or holds MaxRows rows, all    *)
(* alike (without a null, or with one), in either build.  A value column   *)
(* is empty or holds MaxRows rows.                                         *)

Calls == CallsUpTo(MaxRequests, MaxAggs, ValueColumns({0, MaxRows}))

DispatchKeyTables ==
  {[types |-> <<"INT32", "STRING">>, rows |-> [i \in 1..n |-> row]] :
     n \in {0, MaxRows}, row \in {<<1, 1>>, <<0, 1>>}}

Init == InitOver(DispatchKeyTables, FALSE, BOOLEAN)

Next == Aggregate(Calls) \/ Scan(Calls) \/ GetGroups \/ Return

Spec == Init /\ [][Next]_vars

----------------------------------------------------------------------------
(* Grouping: every key table of KeyTables, with directives and without,    *)
(* and the calls of at most one request on an INT32 column: of the keys'   *)
(* row count with at most one descriptor, of any kind, or of one row more. *)

GroupCalls ==
  LET column(size) == [type |-> "INT32", size |-> size, keys_type |-> "EMPTY"]
  IN  {<<>>}
        \cup {<<[values |-> column(num_rows(_keys)), aggregations |-> aggregations]>> :
                aggregations \in SeqUpTo(RequestKinds, 1)}
        \cup {<<[values |-> column(num_rows(_keys) + 1), aggregations |-> <<"SUM">>]>>}

InitGroups == InitOver(KeyTables, TRUE, {FALSE})

NextGroups == Aggregate(GroupCalls) \/ Scan(GroupCalls) \/ GetGroups \/ Return

SpecGroups == InitGroups /\ [][NextGroups]_vars

----------------------------------------------------------------------------
(* Two callers on one context, without synchronization.  A call is no      *)
(* longer one step: the steps are the reads and the write of _helper, as   *)
(* the statements of dispatch_aggregation and helper() make them, and they *)
(* interleave.  What a call does before it first reads _helper (the        *)
(* checks, the empty-input shortcut) reads only what the constructor       *)
(* stored, and is one step.  A caller holding a reference to a helper that *)
(* another caller's assignment to _helper has destroyed has undefined      *)
(* behaviour: its call ends as if the helper were intact, or not.          *)

RaceKeyTables == {keys \in KeyTables : num_rows(keys) <= 1}

RaceCalls ==
  LET column == [type |-> "INT32", size |-> num_rows(_keys), keys_type |-> "EMPTY"]
  IN  {<<[values |-> column, aggregations |-> <<kind>>]>> : kind \in {"SUM", "MEDIAN"}}

\* the other callers stay where they are
Moves(t, to) ==
  /\ threads' = [threads EXCEPT ![t] = to]
  /\ UNCHANGED <<_keys, _include_null_keys, _keys_are_sorted, _column_order,
                 _null_precedence, first_groups, sort_class_served, failed_in_NoHelper,
                 cuda_10_2, ret>>

\* aggregate and scan up to the first read of _helper: a failed check or
\* the empty-input shortcut ends the call, else aggregate goes on to
\* dispatch_aggregation and scan to sort_scan, which asks for the helper
RaceRequestCall(t) ==
  /\ threads[t].pc = "idle"
  /\ \E op \in {"aggregate", "scan"}, requests \in RaceCalls :
       \E r \in {IF op = "aggregate" THEN aggregate(requests) ELSE scan(requests)} :
         Moves(t, [Idle EXCEPT !.op = op, !.requests = requests,
                     !.pc = IF r.strategy \in {"none", "empty"} THEN "done"
                            ELSE IF op = "aggregate" THEN "dispatch" ELSE "helper_test",
                     !.status = IF r.strategy \in {"none", "empty"} THEN r.status ELSE "none",
                     !.strategy = IF r.strategy = "empty" THEN "empty" ELSE "none"])
  /\ UNCHANGED <<_helper, helper_builds>>

\* get_groups has no check and no shortcut: it asks for the helper at once
RaceGetGroupsCall(t) ==
  /\ threads[t].pc = "idle"
  /\ Moves(t, [Idle EXCEPT !.op = "get_groups", !.pc = "helper_test"])
  /\ UNCHANGED <<_helper, helper_builds>>

\* dispatch_aggregation evaluates its condition, reading _helper
RaceDispatch(t) ==
  /\ threads[t].pc = "dispatch"
  /\ Moves(t, [threads[t] EXCEPT
                 !.pc = IF UseHash(threads[t].requests) THEN "hash" ELSE "helper_test"])
  /\ UNCHANGED <<_helper, helper_builds>>

\* the hash strategy runs; whether a helper stands in the slot by now is
\* noted
RaceHash(t) ==
  /\ threads[t].pc = "hash"
  /\ Moves(t, [threads[t] EXCEPT !.pc = "done", !.status = "ok", !.strategy = "hash",
                                  !.helper_at_hash = (_helper # <<>>)])
  /\ UNCHANGED <<_helper, helper_builds>>

\* helper() tests the slot: a helper found there is the one returned
RaceHelperTest(t) ==
  /\ threads[t].pc = "helper_test"
  /\ Moves(t, IF helper(_helper).built = 0
               THEN [threads[t] EXCEPT !.pc = "use", !.ref = helper_builds]
               ELSE [threads[t] EXCEPT !.pc = "helper_make", !.saw_empty = TRUE])
  /\ UNCHANGED <<_helper, helper_builds>>

\* helper() constructs a helper and assigns it to the slot, which
\* destroys the helper that stood there
RaceHelperMake(t) ==
  /\ threads[t].pc = "helper_make"
  /\ _helper' = helper(<<>>).slot
  /\ helper_builds' = helper_builds + helper(<<>>).built
  /\ Moves(t, [threads[t] EXCEPT !.pc = "use", !.made = TRUE,
                                  !.ref = helper_builds + helper(<<>>).built])

\* the sort strategy, or get_groups, works on the helper it was handed
RaceUse(t) ==
  /\ threads[t].pc = "use"
  /\ \E status \in IF threads[t].ref = helper_builds THEN {"ok"} ELSE {"ok", "undefined"} :
       Moves(t, [threads[t] EXCEPT
                   !.pc = "done", !.status = status,
                   !.strategy = IF threads[t].op = "get_groups" THEN "none" ELSE "sort"])
  /\ UNCHANGED <<_helper, helper_builds>>

RaceReturn(t) ==
  /\ threads[t].pc = "done"
  /\ Moves(t, Idle)
  /\ UNCHANGED <<_helper, helper_builds>>

InitRace == InitOver(RaceKeyTables, FALSE, {FALSE})

NextRace ==
  \E t \in Threads :
    \/ RaceRequestCall(t)
    \/ RaceGetGroupsCall(t)
    \/ RaceDispatch(t)
    \/ RaceHash(t)
    \/ RaceHelperTest(t)
    \/ RaceHelperMake(t)
    \/ RaceUse(t)
    \/ RaceReturn(t)

SpecRace == InitRace /\ [][NextRace]_vars

----------------------------------------------------------------------------
(* Properties *)

\* the call in flight is an aggregate or a scan
IsRequestCall == ret.op \in {"aggregate", "scan"}

\* the call in flight passed both checks on a key table that has rows
ReachedStrategy == ret.status = "ok" /\ num_rows(_keys) > 0

\* every descriptor of every request is of a kind the hash strategy computes
AllHashCompatible(requests) ==
  \A i \in 1..Len(requests) :
    \A j \in 1..Len(requests[i].aggregations) :
      requests[i].aggregations[j] \in {"SUM", "MIN", "MAX", "COUNT", "MEAN"}

\* the requests hold at least one descriptor
HasDescriptor(requests) == \E i \in 1..Len(requests) : requests[i].aggregations # <<>>

\* C1: once the helper exists it exists for good, and every later aggregate
\* call that passes the checks on a key table with rows is served by the sort
\* strategy, whatever its requests and the sortedness hint.
C1_StrategyLock ==
  [][_helper # <<>> =>
       /\ _helper' # <<>>
       /\ (ret'.op = "aggregate" /\ ret'.status = "ok" /\ num_rows(_keys) > 0
             => ret'.strategy = "sort")]_vars

\* an aggregate of hash-compatible requests, under the hint NO, that found
\* the helper built and was served by the sort strategy
C1_Witness ==
  /\ ret.op = "aggregate" /\ ret.had_helper /\ ReachedStrategy
  /\ _keys_are_sorted = "NO"
  /\ HasDescriptor(ret.requests) /\ AllHashCompatible(ret.requests)
  /\ ret.strategy = "sort"

\* C2: an aggregate call that reaches dispatch is served by the hash strategy
\* exactly when the hint is NO, no helper existed at dispatch and every
\* descriptor is hash-compatible; it is served by the sort strategy otherwise.
C2_HashApplicability ==
  ret.op = "aggregate" /\ ReachedStrategy =>
    /\ ret.strategy \in {"hash", "sort"}
    /\ ret.strategy = "hash" <=>
         (_keys_are_sorted = "NO" /\ ~ret.had_helper /\ AllHashCompatible(ret.requests))

\* an aggregate served by the hash strategy
C2_Witness ==
  ret.op = "aggregate" /\ ret.strategy = "hash" /\ HasDescriptor(ret.requests)

\* C3: after a scan or an aggregate holding a MEDIAN or QUANTILE descriptor
\* has been served, no aggregate call is served by the hash strategy: one
\* that reaches dispatch is served by the sort strategy, and whatever an
\* aggregate returns carries the keys in the helper's sorted order.
C3_LockAfterSortClass ==
  ret.op = "aggregate" /\ ret.after_sort_class /\ ret.status = "ok" =>
    /\ ret.strategy # "hash"
    /\ num_rows(_keys) > 0 => ret.strategy = "sort"
    /\ ret.keys =
         sorted_keys(sort_groupby_helper(_keys, _include_null_keys, _keys_are_sorted))

\* an aggregate of hash-compatible requests, under the hint NO, served by the
\* sort strategy after a scan or a MEDIAN-class aggregate, on keys that the
\* hash strategy would return in another order
C3_Witness ==
  /\ ret.op = "aggregate" /\ ret.after_sort_class /\ ReachedStrategy
  /\ _keys_are_sorted = "NO"
  /\ HasDescriptor(ret.requests) /\ AllHashCompatible(ret.requests)
  /\ ret.strategy = "sort"
  /\ hash_groupby(_keys, ret.requests, _include_null_keys).keys # ret.keys

\* C4: aggregate and scan fail with the size-mismatch error exactly when some
\* request's value column differs in row count from the key table.
C4_SizeMismatch ==
  IsRequestCall =>
    (ret.status = "SizeMismatch" <=>
       \E i \in 1..Len(ret.requests) : ret.requests[i].values.size # num_rows(_keys))

\* a call that failed on its second request alone
C4_Witness ==
  /\ IsRequestCall /\ ret.status = "SizeMismatch"
  /\ Len(ret.requests) = 2
  /\ ret.requests[1].values.size = num_rows(_keys)
  /\ ret.requests[2].values.size # num_rows(_keys)

\* the element type of a value column: for a dictionary, that of its keys
ElementType(column) ==
  IF column.type = "DICTIONARY32" THEN column.keys_type ELSE column.type

\* some (element type, kind) pair of the requests is no supported combination
SomeUnsupported(requests) ==
  \E i \in 1..Len(requests) :
    \E j \in 1..Len(requests[i].aggregations) :
      ~is_valid_aggregation(ElementType(requests[i].values), requests[i].aggregations[j])

\* C5: past the size check, aggregate and scan fail with the invalid
\* type/aggregation error exactly when some (element type, kind) pair is not
\* supported, a dictionary column being taken at the type of its keys.
C5_InvalidAggregation ==
  IsRequestCall =>
    (ret.status = "InvalidAggregation" <=>
       /\ \A i \in 1..Len(ret.requests) : ret.requests[i].values.size = num_rows(_keys)
       /\ SomeUnsupported(ret.requests))

\* a SUM over a dictionary column with INT32 keys passed the check
C5_Witness ==
  /\ IsRequestCall /\ ret.status = "ok"
  /\ \E i \in 1..Len(ret.requests) :
       /\ ret.requests[i].values.type = "DICTIONARY32"
       /\ ret.requests[i].values.keys_type = "INT32"
       /\ \E j \in 1..Len(ret.requests[i].aggregations) :
            ret.requests[i].aggregations[j] = "SUM"

\* C6: an aggregate or scan call that fails a check has run no strategy and
\* leaves the context as it was, the helper slot included; and an aggregate
\* of hash-compatible requests that follows a failed call which found no
\* helper is served by the hash strategy (the hint being NO).
C6_NoEffectOnFailure ==
  [][/\ (ret'.op \in {"aggregate", "scan"} /\ ret'.status # "ok"
           => /\ ret'.strategy = "none"
              /\ context' = context
              /\ helper_builds' = helper_builds)
     /\ (ret'.op = "aggregate" /\ ret'.after_failure /\ ret'.status = "ok"
           /\ num_rows(_keys) > 0 /\ _keys_are_sorted = "NO"
           /\ AllHashCompatible(ret'.requests)
           => ret'.strategy = "hash" /\ _helper' = <<>>)]_vars

\* an aggregate served by the hash strategy right after a failed call
C6_Witness ==
  /\ ret.op = "aggregate" /\ ret.after_failure /\ ret.strategy = "hash"
  /\ HasDescriptor(ret.requests)

\* C7: on a key table without rows, a call that passes the checks returns an
\* empty key table of the key columns' types and, for each request in order,
\* one empty column per descriptor in order, of type
\* target_type(value column type, kind).
C7_EmptyInput ==
  IsRequestCall /\ ret.status = "ok" /\ num_rows(_keys) = 0 =>
    /\ ret.keys = [types |-> _keys.types, rows |-> <<>>]
    /\ Len(ret.results) = Len(ret.requests)
    /\ \A i \in 1..Len(ret.requests) :
         /\ Len(ret.results[i]) = Len(ret.requests[i].aggregations)
         /\ \A j \in 1..Len(ret.requests[i].aggregations) :
              ret.results[i][j] =
                [type |-> target_type(ret.requests[i].values.type,
                                      ret.requests[i].aggregations[j]),
                 size |-> 0]

\* two requests on an empty key table, one of whose result columns is not of
\* its value column's type
C7_Witness ==
  /\ IsRequestCall /\ ret.status = "ok" /\ num_rows(_keys) = 0
  /\ Len(ret.requests) = 2
  /\ \E i \in 1..Len(ret.requests) :
       \E j \in 1..Len(ret.requests[i].aggregations) :
         ret.results[i][j].type # ret.requests[i].values.type

\* C8: a scan call that passes the checks on a key table with rows is served
\* by the sort strategy, in every state of the context.
C8_ScanUsesSort ==
  ret.op = "scan" /\ ReachedStrategy => ret.strategy = "sort"

\* a scan of hash-compatible requests, under the hint NO, that found no
\* helper and was served by the sort strategy
C8_Witness ==
  /\ ret.op = "scan" /\ ReachedStrategy /\ ~ret.had_helper
  /\ _keys_are_sorted = "NO"
  /\ HasDescriptor(ret.requests) /\ AllHashCompatible(ret.requests)
  /\ ret.strategy = "sort"

RowsAfterNullFiltering ==
  {i \in 1..num_rows(_keys) :
     \/ _include_null_keys = "INCLUDE"
     \/ \A c \in DOMAIN _keys.rows[i] : _keys.rows[i][c] # 0}

RECURSIVE SumSeq(_)
SumSeq(q) == IF q = <<>> THEN 0 ELSE Head(q) + SumSeq(Tail(q))

\* C10: the group offsets start with 0, never decrease, end with the number
\* of key rows left after null filtering, and their consecutive differences
\* are the sizes of the groups, which sum to that number.
C10_GroupOffsets ==
  ret.op = "get_groups" =>
    LET offsets == ret.group_offsets
        groups == Len(offsets) - 1
        sizes == [g \in 1..groups |-> offsets[g + 1] - offsets[g]]
    IN  /\ groups >= 0
        /\ offsets[1] = 0
        /\ offsets[groups + 1] = Cardinality(RowsAfterNullFiltering)
        /\ \A g \in 1..groups : offsets[g] <= offsets[g + 1]
        /\ groups = num_rows(ret.keys)
        /\ \A g \in 1..groups :
             sizes[g] = Cardinality({i \in RowsAfterNullFiltering :
                                       _keys.rows[i] = ret.keys.rows[g]})
        /\ SumSeq(sizes) = Cardinality(RowsAfterNullFiltering)

\* get_groups under EXCLUDE on a key table that loses a row to null
\* filtering and keeps two groups
C10_Witness ==
  /\ ret.op = "get_groups" /\ _include_null_keys = "EXCLUDE"
  /\ Cardinality(RowsAfterNullFiltering) < num_rows(_keys)
  /\ Len(ret.group_offsets) > 2

\* key row i holds a null
HasNullKey(i) == \E c \in DOMAIN _keys.rows[i] : _keys.rows[i][c] = 0

\* the key rows equal to a given row, nulls matching nulls
RowsWithKey(row) == {k \in 1..num_rows(_keys) : _keys.rows[k] = row}

\* every descriptor's value for group g of the call in flight is the
\* reduction over exactly the given rows
AggregatedOver(g, rows) ==
  \A i \in 1..Len(ret.requests) :
    \A j \in 1..Len(ret.requests[i].aggregations) :
      ret.aggregates[i][j][g] = reduce(ret.requests[i].aggregations[j], rows)

\* C11: an aggregate that is served returns, under INCLUDE, one group for
\* each key row, which it shares with every row that has the same values and
\* the same nulls, all of them aggregated together; under EXCLUDE no row
\* with a null key is among the returned keys or in any aggregate, and every
\* other row is.
C11_NullKeyPolicy ==
  ret.op = "aggregate" /\ ReachedStrategy =>
    LET out == ret.keys.rows
        GroupsOf(row) == {g \in 1..Len(out) : out[g] = row}
    IN  /\ \A i \in 1..num_rows(_keys) :
             IF _include_null_keys = "EXCLUDE" /\ HasNullKey(i)
             THEN GroupsOf(_keys.rows[i]) = {}
             ELSE Cardinality(GroupsOf(_keys.rows[i])) = 1
        /\ \A g \in 1..Len(out) :
             /\ RowsWithKey(out[g]) # {}
             /\ AggregatedOver(g, RowsWithKey(out[g]))
             /\ _include_null_keys = "EXCLUDE" => \A k \in RowsWithKey(out[g]) : ~HasNullKey(k)

\* a SUM under INCLUDE over keys of two columns in which two rows with a
\* null in the same column were merged into one group
C11_Witness ==
  /\ ret.op = "aggregate" /\ ReachedStrategy /\ _include_null_keys = "INCLUDE"
  /\ Len(_keys.types) = 2
  /\ HasDescriptor(ret.requests)
  /\ \E g \in 1..Len(ret.keys.rows) :
       /\ Cardinality(RowsWithKey(ret.keys.rows[g])) = 2
       /\ \E k \in RowsWithKey(ret.keys.rows[g]) : HasNullKey(k)
       /\ ret.aggregates[1][1][g] = SumOf({ValueAt(k) : k \in RowsWithKey(ret.keys.rows[g])})

\* what the sort strategy returns for the requests on a context of its own
\* over the same keys, policy and hint
IndependentSort(requests) ==
  LET own == <<sort_groupby_helper(_keys, _include_null_keys, _keys_are_sorted)>>
  IN  sort_groupby(requests, [slot |-> own, built |-> 1], key_sort_order(own[1]),
                   group_offsets(own[1]), FALSE)

\* output row g of an outcome: its key and its value for every descriptor
PairAt(out, g) ==
  <<out.keys.rows[g],
    [i \in 1..Len(out.aggregates) |->
      [j \in 1..Len(out.aggregates[i]) |-> out.aggregates[i][j][g]]]>>

\* two outcomes hold the same (key, values) pairs, each as many times
SamePairs(a, b) ==
  LET PairsOf(out) == {PairAt(out, g) : g \in 1..Len(out.keys.rows)}
      Count(out, pair) == Cardinality({g \in 1..Len(out.keys.rows) : PairAt(out, g) = pair})
  IN  \A pair \in PairsOf(a) \cup PairsOf(b) : Count(a, pair) = Count(b, pair)

\* C12: under EXCLUDE, what an aggregate of hash-compatible requests returns,
\* by the hash strategy or by the sort strategy, holds the (key, values)
\* pairs and has the result columns that the sort strategy returns on a
\* context of its own; served by the sort strategy, it returns them in the
\* same order too.
C12_StrategyEquivalence ==
  /\ ret.op = "aggregate" /\ ReachedStrategy
  /\ _include_null_keys = "EXCLUDE" /\ AllHashCompatible(ret.requests)
  => LET sort == IndependentSort(ret.requests)
     IN  /\ ret.results = sort.results
         /\ Len(ret.keys.rows) = Len(sort.keys.rows)
         /\ SamePairs(ret, sort)
         /\ ret.strategy = "sort" => ret.keys = sort.keys /\ ret.aggregates = sort.aggregates

\* a SUM served by the hash strategy under EXCLUDE, on keys that lose a row
\* to null filtering, whose groups it returns in another order than the sort
\* strategy does
C12_Witness ==
  /\ ret.op = "aggregate" /\ ret.strategy = "hash" /\ _include_null_keys = "EXCLUDE"
  /\ HasDescriptor(ret.requests)
  /\ \E i \in 1..num_rows(_keys) : HasNullKey(i)
  /\ Len(ret.keys.rows) = 2
  /\ ret.keys # IndependentSort(ret.requests).keys

\* C13 as stated: a context whose keys are declared sorted holds its helper
\* from construction on.
C13_HelperFromConstruction == _keys_are_sorted = "YES" => _helper # <<>>

\* C13: a context whose keys are declared sorted holds no helper until a
\* call builds one through helper(): the slot is filled exactly when
\* helper() has constructed a helper.  A call that throws or takes the
\* empty-input shortcut leaves the slot as it found it; an aggregate or scan
\* that reaches a strategy is served by the sort strategy and leaves the
\* slot filled, and so does get_groups.
C13_HelperBuiltByFirstUse ==
  _keys_are_sorted = "YES" =>
    /\ _helper = <<>> <=> helper_builds = 0
    /\ IsRequestCall /\ ReachedStrategy => ret.strategy = "sort" /\ _helper # <<>>
    /\ IsRequestCall /\ ~ReachedStrategy => (_helper # <<>> <=> ret.had_helper)
    /\ ret.op = "get_groups" => _helper # <<>>

\* an aggregate on keys declared sorted that found no helper and built it
C13_Witness ==
  /\ _keys_are_sorted = "YES" /\ ret.op = "aggregate" /\ ReachedStrategy
  /\ ~ret.had_helper /\ _helper # <<>> /\ helper_builds = 1

\* some request's value column differs in row count from the key table
SomeSizeDiffers(requests) ==
  \E i \in 1..Len(requests) : requests[i].values.size # num_rows(_keys)

\* C14: on a key table without rows, an aggregate or scan call given a value
\* column with rows fails with the size-mismatch error, and one given an
\* unsupported pair (its columns all empty) fails with the invalid
\* type/aggregation error; neither returns the empty result.  On any key
\* table, a call that breaks both checks fails with the size-mismatch error.
C14_ValidationOrder ==
  IsRequestCall =>
    /\ num_rows(_keys) = 0 /\ SomeSizeDiffers(ret.requests) => ret.status = "SizeMismatch"
    /\ num_rows(_keys) = 0 /\ ~SomeSizeDiffers(ret.requests) /\ SomeUnsupported(ret.requests)
         => ret.status = "InvalidAggregation"
    /\ SomeSizeDiffers(ret.requests) /\ SomeUnsupported(ret.requests)
         => ret.status = "SizeMismatch"
    /\ ret.status \in {"SizeMismatch", "InvalidAggregation"}
         => ret.strategy = "none" /\ ret.results = <<>> /\ ret.keys = NoTable

\* a call on a key table without rows that breaks both checks, in different
\* requests, and fails with the size-mismatch error
C14_Witness ==
  /\ IsRequestCall /\ num_rows(_keys) = 0 /\ ret.status = "SizeMismatch"
  /\ Len(ret.requests) = 2
  /\ \E i, k \in 1..2 :
       /\ i # k
       /\ ret.requests[i].values.size # 0
       /\ ret.requests[k].values.size = 0
       /\ SomeUnsupported(<<ret.requests[k]>>)

\* the order lists each kept row of the context's key table once
OrdersKeptRows(order) ==
  /\ \A p, q \in 1..Len(order) : p # q => order[p] # order[q]
  /\ {order[p] : p \in 1..Len(order)} =
       {i \in 1..num_rows(_keys) :
          _include_null_keys = "INCLUDE" \/ ~RowHasNull(_keys.rows[i])}

\* the order is the stable sort of its rows by the context's directives
SortedByDirectives(order) ==
  \A p, q \in 1..Len(order) :
    p < q =>
      /\ ~RowLessBy(_keys.rows[order[q]], _keys.rows[order[p]], _column_order, _null_precedence)
      /\ _keys.rows[order[p]] = _keys.rows[order[q]] => order[p] < order[q]

\* the order is the stable sort of its rows, every column ascending with
\* its nulls last
SortedByDefault(order) ==
  \A p, q \in 1..Len(order) :
    p < q =>
      /\ ~RowLess(_keys.rows[order[q]], _keys.rows[order[p]])
      /\ _keys.rows[order[p]] = _keys.rows[order[q]] => order[p] < order[q]

\* the order leaves its rows in the sequence of the key table
InTableSequence(order) == \A p, q \in 1..Len(order) : p < q => order[p] < order[q]

\* C15 as stated: the sort order of the helper the context builds is the
\* stable sort of the kept rows by the column orders and null precedences
\* given at construction.
C15_OrderHonoursDirectives ==
  _helper # <<>> =>
    /\ OrdersKeptRows(key_sort_order(_helper[1]))
    /\ SortedByDirectives(key_sort_order(_helper[1]))

\* C15: the sort order of the helper the context builds lists the rows the
\* null-key policy keeps and does not depend on the column orders and null
\* precedences given at construction: with hint NO it is the stable sort
\* with every column ascending and nulls last, with hint YES it is the
\* sequence of the key table, which the caller has declared to be the order
\* of the directives.
C15_OrderIgnoresDirectives ==
  _helper # <<>> =>
    /\ OrdersKeptRows(key_sort_order(_helper[1]))
    /\ _keys_are_sorted = "NO" => SortedByDefault(key_sort_order(_helper[1]))
    /\ _keys_are_sorted = "YES" =>
         /\ InTableSequence(key_sort_order(_helper[1]))
         /\ SortedByDirectives(key_sort_order(_helper[1]))

\* a sort-served call on a context constructed with hint NO and directives
\* whose order differs from the default one on the kept rows
C15_Witness ==
  /\ IsRequestCall /\ ret.strategy = "sort" /\ _helper # <<>>
  /\ _keys_are_sorted = "NO" /\ _column_order # <<>>
  /\ ~SortedByDirectives(key_sort_order(_helper[1]))
  /\ RowHasNull(_keys.rows[key_sort_order(_helper[1])[Len(key_sort_order(_helper[1]))]])

\* C16: two callers on one context without a helper race on the slot: a
\* helper is constructed only by a caller whose test found the slot empty,
\* yet two are constructed when both tests ran before either assignment; a
\* call runs the hash strategy only if its test in dispatch_aggregation
\* found the slot empty, yet a helper another caller built may stand there
\* when it runs; and a call that ends in undefined behaviour is one whose
\* helper the second assignment destroyed.  Nothing else goes wrong: there
\* are never more helpers than callers, and a slot once filled stays filled.
C16_RaceOnLazyHelper ==
  /\ helper_builds <= Cardinality(Threads)
  /\ _helper # <<>> <=> helper_builds > 0
  /\ \A t \in Threads :
       /\ threads[t].pc = "helper_make" \/ threads[t].made => threads[t].saw_empty
       /\ threads[t].made => helper_builds >= threads[t].ref /\ threads[t].ref > 0
       /\ threads[t].helper_at_hash =>
            /\ threads[t].strategy = "hash" /\ ~threads[t].made
            /\ _keys_are_sorted = "NO" /\ AllHashCompatible(threads[t].requests)
       /\ threads[t].pc = "hash" \/ threads[t].strategy = "hash" =>
            /\ threads[t].op = "aggregate" /\ ~threads[t].saw_empty
            /\ _keys_are_sorted = "NO" /\ AllHashCompatible(threads[t].requests)
       /\ threads[t].status = "undefined" =>
            helper_builds = 2 /\ threads[t].ref = 1

\* both callers found the slot empty and each has constructed a helper
C16_Witness ==
  /\ helper_builds = 2
  /\ \A t \in Threads : threads[t].saw_empty /\ threads[t].made

\* a call ran the hash strategy although another caller had built the helper
C16_HashBesideHelper ==
  \E t, u \in Threads :
    /\ threads[t].strategy = "hash" /\ threads[t].helper_at_hash
    /\ threads[u].made /\ helper_builds = 1

\* C17: with one caller, the helper is constructed at most once: a call
\* that finds a helper in the slot constructs none and leaves the slot as
\* it is, a call that finds none constructs at most one, and a slot once
\* filled is never emptied.
C17_HelperBuiltOnce ==
  [][/\ helper_builds' <= 1
     /\ _helper # <<>> => _helper' = _helper /\ helper_builds' = helper_builds
     /\ _helper = <<>> /\ _helper' # <<>> => helper_builds = 0 /\ helper_builds' = 1
     /\ _helper' = <<>> => helper_builds' = 0]_vars

\* a scan served by the sort strategy from a helper that a call before it built
C17_Witness ==
  /\ ret.op = "scan" /\ ret.strategy = "sort" /\ ret.had_helper
  /\ helper_builds = 1 /\ _helper # <<>>

\* C18: a get_groups call succeeds on every key table, one without rows
\* included, and leaves a helper in the slot; so an aggregate call after a
\* get_groups call that reaches dispatch is served by the sort strategy,
\* whatever the hint and the kinds of its descriptors.
C18_GetGroupsLocksSort ==
  /\ ret.op = "get_groups" => ret.status = "ok" /\ _helper # <<>>
  /\ first_groups # <<>> => _helper # <<>>
  /\ ret.op = "aggregate" /\ first_groups # <<>> /\ ReachedStrategy =>
       ret.had_helper /\ ret.strategy = "sort"

\* a hash-compatible aggregate on a context with hint NO served by the sort
\* strategy, where nothing but a get_groups call has asked for the helper
C18_Witness ==
  /\ ret.op = "aggregate" /\ ReachedStrategy /\ ret.strategy = "sort"
  /\ _keys_are_sorted = "NO"
  /\ HasDescriptor(ret.requests) /\ AllHashCompatible(ret.requests)
  /\ first_groups # <<>> /\ ~sort_class_served

\* C19: a call served by the hash strategy leaves the slot empty and has
\* constructed no helper; and on a context with hint NO, an aggregate call
\* that finds no helper, passes the checks and holds hash-compatible
\* descriptors only is served by the hash strategy (by the empty-input
\* shortcut on a key table without rows) and leaves the slot empty: so a
\* sequence of such calls alone never leaves NoHelper.
C19_HashLeavesNoHelper ==
  /\ ret.strategy = "hash" => ~ret.had_helper /\ _helper = <<>> /\ helper_builds = 0
  /\ /\ ret.op = "aggregate" /\ ~ret.had_helper /\ ret.status = "ok"
     /\ _keys_are_sorted = "NO" /\ AllHashCompatible(ret.requests)
     => /\ _helper = <<>>
        /\ ret.strategy = IF num_rows(_keys) > 0 THEN "hash" ELSE "empty"

\* a hash-served aggregate of two requests with descriptors, at whose
\* return no helper has ever been constructed
C19_Witness ==
  /\ ret.op = "aggregate" /\ ret.strategy = "hash" /\ ~ret.had_helper
  /\ Len(ret.requests) = 2
  /\ \A i \in 1..2 : HasDescriptor(<<ret.requests[i]>>)
  /\ _helper = <<>> /\ helper_builds = 0

====
